---- MODULE Spec2Model ----
(***************************************************************************)
(* Post/reply data-consistency layer of the community-forum application:   *)
(* the two Post Store implementations (PostProvider of PostContext.tsx and *)
(* the usePosts hook), the Local backend (webStorage over localStorage)    *)
(* and the Bridged backend (electronStorage over the preload bridge and    *)
(* the main-process ipc handlers over electron-store).                     *)
(*                                                                         *)
(* A text is a sequence of one-character strings.  A post is a record      *)
(*   [id, text, author, likes, likedBy, replies, parentId, isDeleted]      *)
(* where an absent parentId is NoId and an absent isDeleted is FALSE.      *)
(* The media array and the timestamp string are set at creation and passed *)
(* through untouched by every operation of the store and of the backends;  *)
(* they are not part of the record.                                        *)
(*                                                                         *)
(* Beside the store the module follows the media of a draft (SpecMedia:    *)
(* useMediaUpload, MediaUploader, PostComposer), callers that hand the     *)
(* backends and the bridge arguments they have to refuse (SpecBoundary),   *)
(* two sessions given the same operations on the two backends (SpecPair),  *)
(* the calls of the store with their await shown (SpecOverlap; SpecMutate  *)
(* for create, reply and like alone; SpecHang with calls that never        *)
(* return; SpecOverlapFair with every call returning) and the identity     *)
(* provider (SpecAuth: AuthProvider of AuthContext.tsx).                   *)
(***************************************************************************)
EXTENDS Integers, Sequences, FiniteSets, TLC

VARIABLES
    impl,      \* which Post Store is mounted: "provider" (PostProvider) or "hook" (usePosts)
    backend,   \* getStorageService(): "web" (webStorage) or "electron" (electronStorage)
    hasUUID,   \* whether crypto.randomUUID exists in this runtime
    medium,    \* "reliable": every access to localStorage / electron-store succeeds;
               \* "unreliable": an access may fail (quota exceeded, store not constructible)
    posts,     \* the store's posts state (useState<Post[]>)
    stored,    \* the raw persisted collection ('community-forum-posts' / savedPosts)
    loading,   \* the store's loading state
    error,     \* the store's error state ("null" when unset)
    clock,     \* the value Date.now() returned when it was last called
    rnd,       \* how many random ids (randomUUID / getRandomValues) were drawn so far
    calls,     \* how many calls of the store or of a backend have completed
    last,      \* the last completed call: its arguments and its outcome
    mediaFiles, \* useMediaUpload's mediaFiles state: the files attached, by number
    isLoading, \* useMediaUpload's isLoading state
    hashing,   \* the addMedia calls that wait for calculateFileHash, by file number
    draft,     \* PostComposer's mediaFiles state, which handleSubmit hands on
    attach,    \* the last event of the composer and its outcome
    urls,      \* the media files handed on with a submitted post (posted) and those
               \* whose object URL was revoked (revoked), by number
    pair,      \* two sessions given the same operations, one on each backend
    pending,   \* the calls of the store that wait for the backend, oldest first
    rendered,  \* the posts of the last render: what the callbacks' closures hold
    done,      \* the call that completed last and the collection it came to
    overlap,   \* whether calls overlapped since the store was last idle, and how
    hung,      \* the calls whose backend call never returns, by operation
    auth       \* AuthProvider: the current user, the persisted identity record
               \* and the last operation on them

vars == <<impl, backend, hasUUID, medium, posts, stored, loading, error, clock, rnd,
          calls, last, mediaFiles, isLoading, hashing, draft, attach, urls, pair,
          pending, rendered, done, overlap, hung, auth>>

-----------------------------------------------------------------------------
(* Bounds of the model *)

MaxTop == 4        \* top-level posts held in memory
MaxReplies == 2    \* replies under one post
MaxClock == 2      \* values Date.now() takes
MaxRnd == 5        \* random ids drawn
MaxCalls == 4      \* calls made in one session on a reliable medium
MaxFaultCalls == 3 \* calls made in one session on an unreliable medium
MaxTextLen == 24   \* characters of a text (re-escaping makes texts grow)
MaxAttach == 6     \* files handed to addMedia while one draft is composed
MaxHashing == 2    \* addMedia calls that wait for their hash at one time
MaxPairSteps == 4  \* operations given to the two sessions of a pair
MaxOverlapCalls == 3 \* calls started where calls may overlap
MaxPending == 2    \* calls that wait for the backend at one time

-----------------------------------------------------------------------------
(* Generic helpers on sequences *)

Range(s) == {s[i] : i \in 1..Len(s)}

Includes(s, x) == \E i \in 1..Len(s) : s[i] = x

Count(s, x) == Cardinality({i \in 1..Len(s) : s[i] = x})

RECURSIVE Concat(_)
Concat(ss) == IF ss = <<>> THEN <<>> ELSE Head(ss) \o Concat(Tail(ss))

\* Does pat occur in text at position i (1-based)?
MatchAt(text, pat, i) ==
    /\ i + Len(pat) - 1 <= Len(text)
    /\ \A k \in 1..Len(pat) : text[i + k - 1] = pat[k]

Contains(text, pat) == \E i \in 1..Len(text) : MatchAt(text, pat, i)

-----------------------------------------------------------------------------
(* src/utils/security.ts and the sanitizer of electronStorage.ts *)

\* String.prototype.replace(/c/g, rep): every occurrence of the character c,
\* left to right, each replaced once (the replacement is not rescanned).
\* (t is text, evaluated once.)
ReplaceAll(text, c, rep) ==
    CHOOSE r \in {Concat([i \in 1..Len(t) |-> IF t[i] = c THEN rep ELSE <<t[i]>>]) :
                    t \in {text}} : TRUE

\* The backtick character (written as a name: the character itself cannot appear
\* in a string of this notation).
BackTick == "BACKTICK"

E_amp  == <<"&", "a", "m", "p", ";">>
E_lt   == <<"&", "l", "t", ";">>
E_gt   == <<"&", "g", "t", ";">>
E_quot == <<"&", "q", "u", "o", "t", ";">>
E_apos == <<"&", "#", "x", "2", "7", ";">>
E_sl   == <<"&", "#", "x", "2", "F", ";">>
E_bt   == <<"&", "#", "x", "6", "0", ";">>

\* security.ts sanitizeText: ampersand first.
sanitizeText(text) ==
    IF text = <<>> THEN <<>>
    ELSE ReplaceAll(ReplaceAll(ReplaceAll(ReplaceAll(ReplaceAll(ReplaceAll(ReplaceAll(
            text, "&", E_amp), "<", E_lt), ">", E_gt), "\"", E_quot), "'", E_apos),
            "/", E_sl), BackTick, E_bt)

\* electronStorage.ts sanitizePost's inner sanitizeText: '<' and '>' first, then '&'.
bridgeSanitizeText(text) ==
    ReplaceAll(ReplaceAll(ReplaceAll(ReplaceAll(ReplaceAll(ReplaceAll(
        text, "<", E_lt), ">", E_gt), "&", E_amp), "\"", E_quot), "'", E_apos),
        "/", E_sl)

UpperCase == <<"A","B","C","D","E","F","G","H","I","J","K","L","M",
               "N","O","P","Q","R","S","T","U","V","W","X","Y","Z">>
LowerCase == <<"a","b","c","d","e","f","g","h","i","j","k","l","m",
               "n","o","p","q","r","s","t","u","v","w","x","y","z">>
Digits == {"0","1","2","3","4","5","6","7","8","9"}

ToLower(c) == IF \E i \in 1..26 : UpperCase[i] = c
              THEN LowerCase[CHOOSE i \in 1..26 : UpperCase[i] = c]
              ELSE c

LowerText(text) == [i \in 1..Len(text) |-> ToLower(text[i])]

\* \w of a JavaScript regular expression
IsWordChar(c) == c \in Range(UpperCase) \cup Range(LowerCase) \cup Digits \cup {"_"}

IsSpace(c) == c \in {" ", "\t", "\n", "\r"}

\* /on\w+=/i : "on", one or more word characters, "="
MatchesOnHandler(text) ==
    LET t == LowerText(text) IN
    \E i \in 1..Len(t) : \E j \in (i + 3)..Len(t) :
        /\ t[i] = "o" /\ t[i + 1] = "n"
        /\ t[j] = "="
        /\ \A k \in (i + 2)..(j - 1) : IsWordChar(t[k])

P_script   == <<"<","s","c","r","i","p","t">>
P_iframe   == <<"<","i","f","r","a","m","e">>
P_js       == <<"j","a","v","a","s","c","r","i","p","t",":">>
P_eval     == <<"e","v","a","l","(">>
P_cookie   == <<"d","o","c","u","m","e","n","t",".","c","o","o","k","i","e">>
P_local    == <<"l","o","c","a","l","s","t","o","r","a","g","e">>
P_session  == <<"s","e","s","s","i","o","n","s","t","o","r","a","g","e">>

\* security.ts detectDangerousContent
detectDangerousContent(text) ==
    IF text = <<>> THEN FALSE
    ELSE LET t == LowerText(text) IN
         \/ Contains(t, P_script)
         \/ Contains(t, P_iframe)
         \/ Contains(t, P_js)
         \/ MatchesOnHandler(text)
         \/ Contains(t, P_eval)
         \/ Contains(t, P_cookie)
         \/ Contains(t, P_local)
         \/ Contains(t, P_session)

\* String.prototype.trim() === ''
IsBlank(text) == \A i \in 1..Len(text) : IsSpace(text[i])

-----------------------------------------------------------------------------
(* src/types/index.ts: User, Post *)

Users == {"u1"}

\* the signed-in user, who composes the posts
Authors == {"u1"}

UserName(u) == IF u = "u1" THEN <<"A", "n", "n">> ELSE <<"B", "o">>

\* another user, who liked a post in an earlier session
OtherUser == "u2"

User(u) == [id |-> u, name |-> UserName(u)]

NoId == [k |-> "none", n |-> 0]

\* an id that no post carries ("does-not-exist")
AbsentId == [k |-> "absent", n |-> 0]

\* an id that is not a non-empty string: '', '  ', undefined
EmptyId == [k |-> "empty", n |-> 0]

RandomId(kind, n) == [k |-> kind, n |-> n]

\* a value for which Array.isArray is false (an object); it is written as a
\* tagged tuple so that it can be compared with a collection
NotArray == << [notArray |-> TRUE] >>

\* Array.isArray(posts)
IsArray(ps) == ps # NotArray

NewPost(id, text, author, parent) ==
    [id |-> id, text |-> text, author |-> author,
     likes |-> 0, likedBy |-> <<>>, replies |-> <<>>,
     parentId |-> parent, isDeleted |-> FALSE]

\* every post of a collection, top-level and replies, in document order
Flat(ps) == Concat([i \in 1..Len(ps) |-> <<ps[i]>> \o ps[i].replies])

IdsOf(ps) == {p.id : p \in Range(Flat(ps))}

\* the posts nested two levels deep (replies of replies), in document order;
\* no operation of the store creates one, stored data may hold them
DeepOf(ps) ==
    Concat([i \in 1..Len(ps) |->
        Concat([j \in 1..Len(ps[i].replies) |-> ps[i].replies[j].replies])])

DeepIdsOf(ps) == {p.id : p \in Range(DeepOf(ps))}

\* a faulty like: the user is recorded, the count is not raised
LikedNoCount(p, userId) ==
    [p EXCEPT !.likedBy = Append(@, userId)]

Liked(p, userId) ==
    [p EXCEPT !.likes = @ + 1, !.likedBy = Append(@, userId)]

-----------------------------------------------------------------------------
(* src/services/storage/webStorage.ts: the Local backend.                   *)
(* s is the value under 'community-forum-posts'; ok says whether            *)
(* localStorage.setItem succeeds (it throws when the quota is exceeded).    *)
(* JSON.stringify followed by JSON.parse returns a post record of this      *)
(* model as it was: it holds strings, numbers, booleans and arrays only.    *)

webGetPosts(s) == s

\* a faulty savePosts: whatever it is given is written
webSavePostsUnchecked(s, ok, ps) ==
    [ret |-> ok, store |-> IF ok THEN ps ELSE s]

webSavePosts(s, ok, ps) ==
    IF ~IsArray(ps) THEN [ret |-> FALSE, store |-> s]
    ELSE [ret |-> ok, store |-> IF ok THEN ps ELSE s]

webMarkDeleted(ps, postId) ==
    LET markReply(r) == IF r.id = postId THEN [r EXCEPT !.isDeleted = TRUE] ELSE r
        mark(p) == IF p.id = postId THEN [p EXCEPT !.isDeleted = TRUE]
                   ELSE IF Len(p.replies) > 0
                        THEN [p EXCEPT !.replies =
                                 [i \in 1..Len(p.replies) |-> markReply(p.replies[i])]]
                        ELSE p
    IN [i \in 1..Len(ps) |-> mark(ps[i])]

webDeletePost(s, ok, postId) ==
    LET updatedPosts == webMarkDeleted(webGetPosts(s), postId)
        filteredPosts == SelectSeq(updatedPosts, LAMBDA p : ~p.isDeleted)
    IN [ret |-> filteredPosts, store |-> webSavePosts(s, ok, updatedPosts).store]

\* the map of likePost in webStorage, electronStorage and the main process
backendLikeMap(ps, postId, userId) ==
    LET likeReply(r) == IF r.id = postId /\ ~Includes(r.likedBy, userId)
                        THEN Liked(r, userId) ELSE r
        like(p) == IF p.id = postId
                   THEN (IF ~Includes(p.likedBy, userId) THEN Liked(p, userId) ELSE p)
                   ELSE IF Len(p.replies) > 0
                        THEN [p EXCEPT !.replies =
                                 [i \in 1..Len(p.replies) |-> likeReply(p.replies[i])]]
                        ELSE p
    IN [i \in 1..Len(ps) |-> like(ps[i])]

webLikePost(s, ok, postId, userId) ==
    webSavePosts(s, ok, backendLikeMap(webGetPosts(s), postId, userId)).store

\* the map of addReply in webStorage and electronStorage: top-level posts only
backendAddReplyMap(ps, parentId, reply) ==
    LET add(p) == IF p.id = parentId
                  THEN [p EXCEPT !.replies = Append(@, reply)]
                  ELSE p
    IN [i \in 1..Len(ps) |-> add(ps[i])]

webAddReply(s, ok, parentId, reply) ==
    LET sanitizedReply == [reply EXCEPT !.text = sanitizeText(@),
                                        !.author = [@ EXCEPT !.name = sanitizeText(@)]]
    IN webSavePosts(s, ok,
                    backendAddReplyMap(webGetPosts(s), parentId, sanitizedReply)).store

-----------------------------------------------------------------------------
(* electron/main.js: the ipc handlers over electron-store.                  *)
(* s is store.get('savedPosts'); ok says whether the store exists or can be *)
(* constructed.                                                             *)

ipcGetPosts(s, ok) == IF ok THEN s ELSE <<>>

ipcSavePosts(s, ok, ps) ==
    [ret |-> ok, store |-> IF ok THEN ps ELSE s]

ipcDeleteMap(ps, postId) ==
    LET keep(p) == [p EXCEPT !.replies = SelectSeq(@, LAMBDA r : r.id # postId)]
        kept == SelectSeq(ps, LAMBDA p : p.id # postId)
    IN [i \in 1..Len(kept) |-> keep(kept[i])]

ipcDeletePost(s, ok, postId) ==
    IF ~ok THEN [ret |-> <<>>, store |-> s]
    ELSE LET updatedPosts == ipcDeleteMap(s, postId)
         IN [ret |-> updatedPosts, store |-> updatedPosts]

ipcLikePost(s, ok, postId, userId) ==
    IF ~ok THEN [ret |-> FALSE, store |-> s]
    ELSE [ret |-> TRUE, store |-> backendLikeMap(s, postId, userId)]

-----------------------------------------------------------------------------
(* electron/preload.ts: the bridge surface window.electron.tweetStorage *)

isValidPostId(id) == id.k # "empty"

isValidPostsArray(ps) == IsArray(ps)

preloadGetTweets(s, ok) == ipcGetPosts(s, ok)

preloadSaveTweets(s, ok, ps) ==
    IF ~isValidPostsArray(ps) THEN [ret |-> FALSE, store |-> s]
    ELSE ipcSavePosts(s, ok, ps)

preloadDeleteTweet(s, ok, postId) ==
    IF ~isValidPostId(postId) THEN [ret |-> <<>>, store |-> s]
    ELSE ipcDeletePost(s, ok, postId)

preloadLikePost(s, ok, postId, userId) ==
    IF ~isValidPostId(postId) THEN [ret |-> FALSE, store |-> s]
    ELSE ipcLikePost(s, ok, postId, userId)

-----------------------------------------------------------------------------
(* src/services/storage/electronStorage.ts: the Bridged backend *)

PostFields == {"id", "text", "author", "likes", "replies", "likedBy"}

RECURSIVE validatePost(_)
validatePost(p) ==
    /\ PostFields \subseteq DOMAIN p
    /\ \A i \in 1..Len(p.replies) : validatePost(p.replies[i])

RECURSIVE sanitizePost(_)
sanitizePost(p) ==
    [p EXCEPT !.text = bridgeSanitizeText(@),
              !.author = [@ EXCEPT !.name = bridgeSanitizeText(@)],
              !.replies = [i \in 1..Len(p.replies) |-> sanitizePost(p.replies[i])]]

validateAndSanitize(ps) ==
    LET valid == SelectSeq(ps, validatePost)
    IN [i \in 1..Len(valid) |-> sanitizePost(valid[i])]

electronGetPosts(s, ok) == validateAndSanitize(preloadGetTweets(s, ok))

electronSavePosts(s, ok, ps) ==
    IF ~IsArray(ps) THEN [ret |-> FALSE, store |-> s]
    ELSE preloadSaveTweets(s, ok, validateAndSanitize(ps))

electronDeletePost(s, ok, postId) ==
    IF ~isValidPostId(postId)
    THEN [ret |-> electronGetPosts(s, ok), store |-> s]
    ELSE LET r == preloadDeleteTweet(s, ok, postId)
         IN [ret |-> validateAndSanitize(r.ret), store |-> r.store]

electronLikePost(s, ok, postId, userId) ==
    IF ~isValidPostId(postId) THEN s
    ELSE electronSavePosts(s, ok,
             backendLikeMap(electronGetPosts(s, ok), postId, userId)).store

electronAddReply(s, ok, parentId, reply) ==
    IF ~isValidPostId(parentId) \/ ~validatePost(reply) THEN s
    ELSE electronSavePosts(s, ok,
             backendAddReplyMap(electronGetPosts(s, ok), parentId,
                                sanitizePost(reply))).store

-----------------------------------------------------------------------------
(* src/services/storage/index.ts getStorageService: the active backend *)

GetPosts(b, s, ok) == IF b = "web" THEN webGetPosts(s) ELSE electronGetPosts(s, ok)

SavePosts(b, s, ok, ps) ==
    IF b = "web" THEN webSavePosts(s, ok, ps) ELSE electronSavePosts(s, ok, ps)

DeleteById(b, s, ok, postId) ==
    IF b = "web" THEN webDeletePost(s, ok, postId) ELSE electronDeletePost(s, ok, postId)

LikeById(b, s, ok, postId, userId) ==
    IF b = "web" THEN webLikePost(s, ok, postId, userId)
    ELSE electronLikePost(s, ok, postId, userId)

AddReplyById(b, s, ok, parentId, reply) ==
    IF b = "web" THEN webAddReply(s, ok, parentId, reply)
    ELSE electronAddReply(s, ok, parentId, reply)

-----------------------------------------------------------------------------
(* The Post Store: PostProvider (src/context/PostContext.tsx) and the       *)
(* usePosts hook (src/hooks/usePosts.ts).  Each call is taken with the      *)
(* component rendered, so its closure holds the current posts state, and is *)
(* awaited to its end before the next call.                                 *)

NotFound == [id |-> NoId]

\* getPostById of both stores: top-level first, then one level into the replies
getPostById(ps, postId) ==
    IF \E i \in 1..Len(ps) : ps[i].id = postId
    THEN ps[CHOOSE i \in 1..Len(ps) :
              ps[i].id = postId /\ \A j \in 1..(i - 1) : ps[j].id # postId]
    ELSE LET fl == Flat(ps) IN
         IF \E i \in 1..Len(fl) : fl[i].id = postId
         THEN fl[CHOOSE i \in 1..Len(fl) :
                   fl[i].id = postId /\ \A j \in 1..(i - 1) : fl[j].id # postId]
         ELSE NotFound

\* a faulty optimistic update: likedBy is not consulted
providerLikeMapUnchecked(ps, postId, userId) ==
    LET likeReply(r) == IF r.id = postId THEN Liked(r, userId) ELSE r
        like(p) == IF p.id = postId
                   THEN Liked(p, userId)
                   ELSE IF Len(p.replies) > 0
                        THEN [p EXCEPT !.replies =
                                 [i \in 1..Len(p.replies) |-> likeReply(p.replies[i])]]
                        ELSE p
    IN [i \in 1..Len(ps) |-> like(ps[i])]

\* PostProvider.likePost: the optimistic update
providerLikeMap(ps, postId, userId) ==
    LET likeReply(r) == IF r.id = postId /\ ~Includes(r.likedBy, userId)
                        THEN Liked(r, userId) ELSE r
        like(p) == IF p.id = postId /\ ~Includes(p.likedBy, userId)
                   THEN Liked(p, userId)
                   ELSE IF Len(p.replies) > 0
                        THEN [p EXCEPT !.replies =
                                 [i \in 1..Len(p.replies) |-> likeReply(p.replies[i])]]
                        ELSE p
    IN [i \in 1..Len(ps) |-> like(ps[i])]

\* usePosts.likePost: the update made once the target is known not to be liked
hookLikeMap(ps, postId, userId) ==
    LET likeReply(r) == IF r.id = postId THEN Liked(r, userId) ELSE r
        like(p) == IF p.id = postId THEN Liked(p, userId)
                   ELSE IF \E i \in 1..Len(p.replies) : p.replies[i].id = postId
                        THEN [p EXCEPT !.replies =
                                 [i \in 1..Len(p.replies) |-> likeReply(p.replies[i])]]
                        ELSE p
    IN [i \in 1..Len(ps) |-> like(ps[i])]

\* a faulty addReply: the reply is attached to a reply named parentId as well
addReplyMapDeep(ps, parentId, newReply) ==
    LET addIn(r) == IF r.id = parentId
                    THEN [r EXCEPT !.replies = Append(@, newReply)]
                    ELSE r
        add(p) == IF p.id = parentId
                  THEN [p EXCEPT !.replies = Append(@, newReply)]
                  ELSE [p EXCEPT !.replies =
                           [i \in 1..Len(p.replies) |-> addIn(p.replies[i])]]
    IN [i \in 1..Len(ps) |-> add(ps[i])]

\* addReply of both stores: append to the replies of the top-level post parentId
addReplyMap(ps, parentId, newReply) ==
    LET add(p) == IF p.id = parentId
                  THEN [p EXCEPT !.replies = Append(@, newReply)]
                  ELSE p
    IN [i \in 1..Len(ps) |-> add(ps[i])]

\* Date.now(): the time of the last call or a later one
Now == {t \in {clock, clock + 1} : t <= MaxClock}

\* PostProvider.addPost: crypto.randomUUID ? crypto.randomUUID() : `${Date.now()}`
providerPostId(now) == IF hasUUID THEN RandomId("uuid", rnd + 1)
                       ELSE [k |-> "ts", n |-> now]

\* PostProvider.addReply: crypto.randomUUID ? crypto.randomUUID() : `reply-${Date.now()}`
providerReplyId(now) == IF hasUUID THEN RandomId("uuid", rnd + 1)
                        ELSE [k |-> "reply-ts", n |-> now]

\* security.ts generateSecureId: randomUUID, or 16 random bytes in hex
generateSecureId == IF hasUUID THEN RandomId("uuid", rnd + 1)
                    ELSE RandomId("hex", rnd + 1)

\* the texts composed: a blank one, one with a character the sanitizers escape,
\* one that detectDangerousContent matches, and a script tag
Texts == { <<" ">>,
           <<"<">>,
           <<"e", "v", "a", "l", "(">>,
           <<"<", "s", "c", "r", "i", "p", "t", ">">> }

TextsBounded(ps) ==
    \A p \in Range(Flat(ps)) : Len(p.text) <= MaxTextLen /\ Len(p.author.name) <= MaxTextLen

\* the ids a caller passes: those it sees in the rendered collection, those
\* still in storage, and one that names nothing
MemoryIds == IdsOf(posts) \cup DeepIdsOf(posts) \cup {AbsentId}
TargetIds == IdsOf(posts) \cup IdsOf(stored) \cup DeepIdsOf(stored) \cup {AbsentId}
StoredIds == IdsOf(stored) \cup DeepIdsOf(stored) \cup {AbsentId}

\* the outcomes of an access to the medium during one call
MediumStates == IF medium = "reliable" THEN {TRUE} ELSE BOOLEAN

CanCall == calls < (IF medium = "reliable" THEN MaxCalls ELSE MaxFaultCalls)

\* the mount effect (useEffect(() => { refreshPosts() }, []) of PostProvider, the
\* autoLoad effect of usePosts) has run: it is the first call of a session
Mounted == last.op # "init"

Called(c) == /\ calls' = calls + 1
             /\ last' = c

\* what id names in the collection ps
Kind(ps, id) ==
    IF \E i \in 1..Len(ps) : ps[i].id = id THEN "top"
    ELSE IF id \in IdsOf(ps) THEN "reply"
    ELSE "none"

WasLiked(ps, id, userId) ==
    \E p \in Range(Flat(ps)) : p.id = id /\ Includes(p.likedBy, userId)

\* the record of a call: what was asked (op, id, user, text), whether the call
\* before it asked the same (again), what id named and whether user had liked it
\* in the collection the call worked on, what the caller got back (ret), how
\* often savePosts was invoked and what it returned
CallOn(ps, op, id, user, text, ret, saves, saveOk) ==
    [op |-> op, id |-> id, user |-> user, text |-> text, ret |-> ret,
     saves |-> saves, saveOk |-> saveOk,
     again |-> (last.op = op /\ last.id = id /\ last.user = user),
     kind |-> Kind(ps, id), liked |-> WasLiked(ps, id, user)]

Call(op, id, user, text, ret, saves, saveOk) ==
    CallOn(posts, op, id, user, text, ret, saves, saveOk)

\* the draft composer beside the store
Composer == <<mediaFiles, isLoading, hashing, draft, attach, urls>>

\* what no operation of the store touches
\* the calls in flight
InFlight == <<pending, rendered, done, overlap, hung>>

Env == <<impl, backend, hasUUID, medium, Composer, pair, auth, InFlight, auth>>

\* what the promise of a completed call resolves with: the operations of
\* PostProvider are Promise<void>; usePosts.addPost and addReply return the new
\* post (addReply null on failure), likePost and deletePost true or false
Resolves(im, op, ret) ==
    IF im = "provider" \/ op = "load" THEN "undefined"
    ELSE IF ret = "throw" THEN "rejected"
    ELSE IF op \in {"create", "reply"} THEN (IF ret = "ok" THEN "post" ELSE "null")
    ELSE IF ret = "ok" THEN "true" ELSE "false"

\* nothing is attached and nothing was done in the composer
NoAttach == [op |-> "none", ret |-> "none", present |-> 0, sent |-> 0, n |-> 0]

\* no media file was handed on, no object URL was revoked
NoUrls == [posted |-> {}, revoked |-> {}]

\* a session that has done nothing on an empty store
NewSession == [posts |-> <<>>, stored |-> <<>>]

NoPair == [web |-> NewSession, electron |-> NewSession, n |-> 0, op |-> "none"]

NoDone == [op |-> "none", result |-> <<>>]

\* currentUser === null, and localStorage.getItem('community-forum-user') === null
NullUser == [null |-> TRUE]

\* nobody is signed in, no identity record is persisted, nothing was done
NoAuth == [currentUser |-> NullUser, record |-> NullUser, op |-> "none", n |-> 0]

\* no call is in flight and none has completed
Idle ==
    /\ pending = <<>>
    /\ rendered = <<>>
    /\ done = NoDone
    /\ overlap = "none"
    /\ hung = {}

EmptyComposer ==
    /\ mediaFiles = <<>>
    /\ isLoading = FALSE
    /\ hashing = {}
    /\ draft = <<>>
    /\ attach = NoAttach
    /\ urls = NoUrls

\* no call has been made yet
NoCall == [op |-> "init", id |-> NoId, user |-> "u1", text |-> <<>>, ret |-> "ok",
           saves |-> 0, saveOk |-> TRUE, again |-> FALSE, kind |-> "none",
           liked |-> FALSE]

-----------------------------------------------------------------------------
(* Initial state: the component has rendered once and its mount effect has  *)
(* not run yet; an earlier session left two posts, one with a liked reply.  *)

InitStored ==
    << [NewPost(RandomId("uuid", 1), <<"h", "i">>, User("u1"), NoId) EXCEPT
          !.replies = <<
             [NewPost(RandomId("uuid", 2), <<"y", "o">>, User(OtherUser), RandomId("uuid", 1))
                EXCEPT !.likes = 1, !.likedBy = <<OtherUser>>] >>],
       NewPost(RandomId("uuid", 3), <<"o", "k">>, User("u1"), NoId) >>

Init ==
    /\ impl \in {"provider", "hook"}
    /\ backend \in {"web", "electron"}
    /\ hasUUID \in BOOLEAN
    /\ medium = "reliable"
    /\ posts = <<>>
    /\ stored = InitStored
    /\ loading = (impl = "provider")
    /\ error = "null"
    /\ clock = 1
    /\ rnd = 3
    /\ calls = 0
    /\ last = NoCall
    /\ EmptyComposer
    /\ pair = NoPair
    /\ auth = NoAuth
    /\ Idle

-----------------------------------------------------------------------------
(* Store operations.  ok is the state of the persistence medium during the  *)
(* call: localStorage.setItem succeeds / the electron-store can be had.     *)

\* PostProvider.refreshPosts / usePosts.loadPosts
Load ==
    \E ok \in MediumStates :
        LET loadedPosts == GetPosts(backend, stored, ok) IN
        /\ CanCall
        /\ TextsBounded(loadedPosts)
        /\ posts' = loadedPosts
        /\ loading' = FALSE
        /\ error' = "null"
        /\ Called(Call("load", NoId, "u1", <<>>, "ok", 0, TRUE))
        /\ UNCHANGED <<Env, stored, clock, rnd>>

\* the tail shared by the mutating calls: setPosts(updatedPosts), then
\* await storageService.savePosts(updatedPosts), whose result is not looked at
SetAndSave(updatedPosts, ok, op, id, user, text, endLoading) ==
    LET sv == SavePosts(backend, stored, ok, updatedPosts) IN
    /\ TextsBounded(updatedPosts)
    /\ TextsBounded(sv.store)
    /\ posts' = updatedPosts
    /\ stored' = sv.store
    /\ loading' = IF endLoading THEN FALSE ELSE loading
    /\ Called(Call(op, id, user, text, "ok", 1, sv.ret))
    /\ UNCHANGED <<Env, error>>

\* a call that ends before it touches posts or the backend
Rejected(op, id, user, text, ret, endLoading) ==
    /\ Called(Call(op, id, user, text, ret, 0, TRUE))
    /\ loading' = IF endLoading THEN FALSE ELSE loading
    /\ UNCHANGED <<Env, posts, stored, error, clock, rnd>>

\* a faulty addPost: the new post is put behind the others
providerAddPostAppend(text, author, ok) ==
    \E now \in Now :
        LET newPost == NewPost(providerPostId(now), text, User(author), NoId) IN
        /\ SetAndSave(Append(posts, newPost), ok, "create", NoId, author, text, TRUE)
        /\ rnd' = IF hasUUID THEN rnd + 1 ELSE rnd
        /\ clock' = IF hasUUID THEN clock ELSE now

providerAddPost(text, author, ok) ==
    \E now \in Now :
        LET newPost == NewPost(providerPostId(now), text, User(author), NoId) IN
        /\ SetAndSave(<<newPost>> \o posts, ok, "create", NoId, author, text, TRUE)
        /\ rnd' = IF hasUUID THEN rnd + 1 ELSE rnd
        /\ clock' = IF hasUUID THEN clock ELSE now

hookAddPost(text, author, ok) ==
    IF detectDangerousContent(text)
    THEN Rejected("create", NoId, author, text, "throw", FALSE)
    ELSE LET newPost == NewPost(generateSecureId, sanitizeText(text),
                                [id |-> author, name |-> sanitizeText(UserName(author))],
                                NoId) IN
         /\ SetAndSave(<<newPost>> \o posts, ok, "create", NoId, author, text, TRUE)
         /\ rnd' = rnd + 1
         /\ UNCHANGED clock

AddPost ==
    \E text \in Texts, author \in Authors, ok \in MediumStates :
        /\ CanCall /\ Mounted
        /\ Len(posts) < MaxTop
        /\ rnd < MaxRnd
        /\ IF impl = "provider" THEN providerAddPost(text, author, ok)
                                ELSE hookAddPost(text, author, ok)

providerAddReply(parentId, text, author, ok) ==
    \E now \in Now :
        LET newReply == NewPost(providerReplyId(now), text, User(author), parentId) IN
        /\ SetAndSave(addReplyMap(posts, parentId, newReply), ok,
                      "reply", parentId, author, text, TRUE)
        /\ rnd' = IF hasUUID THEN rnd + 1 ELSE rnd
        /\ clock' = IF hasUUID THEN clock ELSE now

hookAddReply(parentId, text, author, ok) ==
    IF detectDangerousContent(text)
    THEN Rejected("reply", parentId, author, text, "throw", FALSE)
    ELSE IF ~\E i \in 1..Len(posts) : posts[i].id = parentId
    THEN Rejected("reply", parentId, author, text, "null", TRUE)
    ELSE LET newReply == NewPost(generateSecureId, sanitizeText(text),
                                 [id |-> author, name |-> sanitizeText(UserName(author))],
                                 parentId) IN
         /\ SetAndSave(addReplyMap(posts, parentId, newReply), ok,
                       "reply", parentId, author, text, TRUE)
         /\ rnd' = rnd + 1
         /\ UNCHANGED clock

AddReply ==
    \E parentId \in MemoryIds, text \in Texts, author \in Authors, ok \in MediumStates :
        /\ CanCall /\ Mounted
        /\ \A i \in 1..Len(posts) :
               posts[i].id = parentId => Len(posts[i].replies) < MaxReplies
        /\ rnd < MaxRnd
        /\ IF impl = "provider" THEN providerAddReply(parentId, text, author, ok)
                                ELSE hookAddReply(parentId, text, author, ok)

providerLikePost(postId, userId, ok) ==
    /\ SetAndSave(providerLikeMap(posts, postId, userId), ok,
                  "like", postId, userId, <<>>, FALSE)
    /\ UNCHANGED <<clock, rnd>>

hookLikePost(postId, userId, ok) ==
    LET postToLike == getPostById(posts, postId) IN
    IF postToLike = NotFound
    THEN Rejected("like", postId, userId, <<>>, "false", TRUE)
    ELSE IF Includes(postToLike.likedBy, userId)
    THEN Rejected("like", postId, userId, <<>>, "ok", TRUE)
    ELSE /\ SetAndSave(hookLikeMap(posts, postId, userId), ok,
                       "like", postId, userId, <<>>, TRUE)
         /\ UNCHANGED <<clock, rnd>>

LikePost ==
    \E postId \in MemoryIds, userId \in Users, ok \in MediumStates :
        /\ CanCall /\ Mounted
        /\ IF impl = "provider" THEN providerLikePost(postId, userId, ok)
                                ELSE hookLikePost(postId, userId, ok)

\* PostProvider.deletePost / usePosts.deletePost
DeletePost ==
    \E postId \in TargetIds, ok \in MediumStates :
        LET r == DeleteById(backend, stored, ok, postId) IN
        /\ CanCall /\ Mounted
        /\ TextsBounded(r.ret)
        /\ posts' = r.ret
        /\ stored' = r.store
        /\ loading' = FALSE
        /\ Called(Call("delete", postId, "u1", <<>>, "ok", 0, TRUE))
        /\ UNCHANGED <<Env, error, clock, rnd>>

\* storageService.likePost of the active backend
BackendLikePost ==
    \E postId \in StoredIds, userId \in Users, ok \in MediumStates :
        LET s == LikeById(backend, stored, ok, postId, userId) IN
        /\ CanCall /\ Mounted
        /\ TextsBounded(s)
        /\ stored' = s
        /\ Called(CallOn(stored, "backendLike", postId, userId, <<>>, "ok", 1, TRUE))
        /\ UNCHANGED <<Env, posts, loading, error, clock, rnd>>

\* window.electron.tweetStorage.likePost: the bridge's own like
BridgeLikePost ==
    \E postId \in StoredIds, userId \in Users, ok \in MediumStates :
        LET r == preloadLikePost(stored, ok, postId, userId) IN
        /\ CanCall /\ Mounted
        /\ backend = "electron"
        /\ stored' = r.store
        /\ Called(CallOn(stored, "bridgeLike", postId, userId, <<>>,
                         IF r.ret THEN "ok" ELSE "false", 0, TRUE))
        /\ UNCHANGED <<Env, posts, loading, error, clock, rnd>>

\* a call of the active backend with an argument it has to refuse: savePosts
\* with a value that is not an array, deletePost, likePost and addReply with an
\* id that is not a non-empty string
BackendInvalidCall ==
    \E op \in {"delete", "like", "reply", "save"}, ok \in MediumStates :
        LET reply == NewPost(RandomId("uuid", rnd + 1), <<"o", "k">>, User("u1"), EmptyId)
            sv == SavePosts(backend, stored, ok, NotArray)
            s == CASE op = "save" -> sv.store
                   [] op = "delete" -> DeleteById(backend, stored, ok, EmptyId).store
                   [] op = "like" -> LikeById(backend, stored, ok, EmptyId, "u1")
                   [] op = "reply" -> AddReplyById(backend, stored, ok, EmptyId, reply)
            ret == CASE op = "save" -> (IF sv.ret THEN "true" ELSE "false")
                     [] op = "delete" -> "collection"
                     [] OTHER -> "undefined"
        IN
        /\ CanCall /\ Mounted
        /\ stored' = s
        /\ Called(CallOn(stored, "invalid", IF op = "save" THEN NoId ELSE EmptyId,
                         "u1", <<>>, ret, 0, TRUE))
        /\ UNCHANGED <<Env, posts, loading, error, clock, rnd>>

\* the same through window.electron.tweetStorage, which has no addReply
BridgeInvalidCall ==
    \E op \in {"delete", "like", "save"}, ok \in MediumStates :
        LET r == CASE op = "save" -> preloadSaveTweets(stored, ok, NotArray)
                   [] op = "delete" -> preloadDeleteTweet(stored, ok, EmptyId)
                   [] op = "like" -> preloadLikePost(stored, ok, EmptyId, "u1")
            ret == IF op = "delete" THEN (IF r.ret = <<>> THEN "empty" ELSE "collection")
                   ELSE IF r.ret THEN "true" ELSE "false"
        IN
        /\ CanCall /\ Mounted
        /\ backend = "electron"
        /\ stored' = r.store
        /\ Called(CallOn(stored, "bridgeInvalid", IF op = "save" THEN NoId ELSE EmptyId,
                         "u1", <<>>, ret, 0, TRUE))
        /\ UNCHANGED <<Env, posts, loading, error, clock, rnd>>

Next ==
    \/ Load
    \/ AddPost
    \/ AddReply
    \/ LikePost
    \/ DeletePost
    \/ BackendLikePost
    \/ BridgeLikePost

Spec == Init /\ [][Next]_vars

\* the same store on a medium whose accesses may fail
InitUnreliable ==
    /\ impl \in {"provider", "hook"}
    /\ backend \in {"web", "electron"}
    /\ hasUUID \in BOOLEAN
    /\ medium = "unreliable"
    /\ posts = <<>>
    /\ stored = InitStored
    /\ loading = (impl = "provider")
    /\ error = "null"
    /\ clock = 1
    /\ rnd = 3
    /\ calls = 0
    /\ last = NoCall
    /\ EmptyComposer
    /\ pair = NoPair
    /\ auth = NoAuth
    /\ Idle

SpecUnreliable == InitUnreliable /\ [][Next]_vars

\* stored data with a reply that itself holds a reply (written by another
\* program or by hand: no operation of the store produces it)
InitStoredDeep ==
    << [NewPost(RandomId("uuid", 1), <<"h", "i">>, User("u1"), NoId) EXCEPT
          !.replies = <<
             [NewPost(RandomId("uuid", 2), <<"y", "o">>, User("u1"), RandomId("uuid", 1))
                EXCEPT !.replies = <<
                   [NewPost(RandomId("uuid", 3), <<"<">>, User(OtherUser),
                            RandomId("uuid", 2))
                      EXCEPT !.likes = 1, !.likedBy = <<OtherUser>>] >>] >>] >>

InitDeep ==
    /\ impl \in {"provider", "hook"}
    /\ backend \in {"web", "electron"}
    /\ hasUUID \in BOOLEAN
    /\ medium = "reliable"
    /\ posts = <<>>
    /\ stored = InitStoredDeep
    /\ loading = (impl = "provider")
    /\ error = "null"
    /\ clock = 1
    /\ rnd = 3
    /\ calls = 0
    /\ last = NoCall
    /\ EmptyComposer
    /\ pair = NoPair
    /\ auth = NoAuth
    /\ Idle

\* the same store over stored data nested two levels deep
SpecDeep == InitDeep /\ [][Next]_vars

\* the store, and beside it callers that hand the backend and the bridge
\* arguments they have to refuse
NextBoundary ==
    \/ Next
    \/ BackendInvalidCall
    \/ BridgeInvalidCall

SpecBoundary == InitUnreliable /\ [][NextBoundary]_vars

-----------------------------------------------------------------------------
(* src/hooks/useMediaUpload.ts, MediaUploader.tsx and PostComposer.tsx: the *)
(* media of a draft.  A file is known by the number of the addMedia call    *)
(* that brought it.  The error state of the hook, the hash and the object   *)
(* URL of a file take no part in what is attached and are left out.         *)

\* the default of useMediaUpload's maxFiles, which PostComposer passes as well
maxFiles == 4

\* useMediaUpload.addMedia up to its await: valid says whether the type of the
\* file is allowed and its size within maxFileSize.  The closure's mediaFiles
\* is the state of the last render, which is the current state when an event
\* of the user starts the call.
addMedia(valid) ==
    LET file == attach.n + 1
        accepted == ~(Len(mediaFiles) >= maxFiles) /\ valid
    IN
    /\ attach.n < MaxAttach
    /\ Cardinality(hashing) < MaxHashing
    /\ hashing' = IF accepted THEN hashing \cup {file} ELSE hashing
    /\ isLoading' = accepted
    /\ attach' = [op |-> "addMedia", ret |-> IF accepted THEN "pending" ELSE "false",
                  present |-> Len(mediaFiles), sent |-> attach.sent, n |-> file]
    /\ UNCHANGED <<mediaFiles, draft>>

\* MediaUploader.handleFileSelect: the file input is disabled while isLoading
\* and when maxFiles files are shown
HandleFileSelect ==
    \E valid \in BOOLEAN :
        /\ ~(isLoading \/ Len(mediaFiles) >= maxFiles)
        /\ addMedia(valid)
        /\ UNCHANGED <<impl, backend, hasUUID, medium, posts, stored, loading, error,
                       clock, rnd, calls, last, urls, pair, InFlight, auth>>

\* MediaUploader.handleDrop: the drop zone takes a file at any time
HandleDrop ==
    \E valid \in BOOLEAN :
        /\ addMedia(valid)
        /\ UNCHANGED <<impl, backend, hasUUID, medium, posts, stored, loading, error,
                       clock, rnd, calls, last, urls, pair, InFlight, auth>>

\* the rest of addMedia, once calculateFileHash has resolved:
\* setMediaFiles(prev => [...prev, newMedia]), return true, setIsLoading(false);
\* then the effect of MediaUploader hands the list to PostComposer
AddMediaResume ==
    \E file \in hashing :
        /\ mediaFiles' = Append(mediaFiles, file)
        /\ draft' = mediaFiles'
        /\ hashing' = hashing \ {file}
        /\ isLoading' = FALSE
        /\ attach' = [op |-> "attached", ret |-> "true", present |-> Len(mediaFiles),
                      sent |-> attach.sent, n |-> attach.n]
        /\ UNCHANGED <<impl, backend, hasUUID, medium, posts, stored, loading, error,
                       clock, rnd, calls, last, urls, pair, InFlight, auth>>

\* useMediaUpload.removeMedia, from the button on a shown file: the file is
\* taken off the list and its object URL is revoked
RemoveMedia ==
    \E id \in Range(mediaFiles) :
        /\ mediaFiles' = SelectSeq(mediaFiles, LAMBDA file : file # id)
        /\ draft' = mediaFiles'
        /\ urls' = [urls EXCEPT !.revoked = @ \cup {id}]
        /\ attach' = [op |-> "removeMedia", ret |-> "none", present |-> Len(mediaFiles),
                      sent |-> attach.sent, n |-> attach.n]
        /\ UNCHANGED <<impl, backend, hasUUID, medium, posts, stored, loading, error,
                       clock, rnd, calls, last, isLoading, hashing, pair, InFlight, auth>>

\* useMediaUpload.clearMedia, from the button shown when a file is attached: the
\* object URL of every file on the list is revoked
ClearMedia ==
    /\ Len(mediaFiles) > 0
    /\ mediaFiles' = <<>>
    /\ draft' = <<>>
    /\ urls' = [urls EXCEPT !.revoked = @ \cup Range(mediaFiles)]
    /\ attach' = [op |-> "clearMedia", ret |-> "none", present |-> Len(mediaFiles),
                  sent |-> attach.sent, n |-> attach.n]
    /\ UNCHANGED <<impl, backend, hasUUID, medium, posts, stored, loading, error,
                   clock, rnd, calls, last, isLoading, hashing, pair, InFlight, auth>>

\* PostComposer.handleSubmit with a text that enables it: onSubmit(postText,
\* mediaFiles), which DiscussionBoard passes to addPost or addReply, then the
\* composer's own list is emptied; the uploader keeps its list
HandleSubmit ==
    /\ attach.op # "submit"
    /\ draft' = <<>>
    /\ urls' = [urls EXCEPT !.posted = @ \cup Range(draft)]
    /\ attach' = [op |-> "submit", ret |-> "none", present |-> Len(mediaFiles),
                  sent |-> Len(draft), n |-> attach.n]
    /\ UNCHANGED <<impl, backend, hasUUID, medium, posts, stored, loading, error,
                   clock, rnd, calls, last, mediaFiles, isLoading, hashing, pair, InFlight, auth>>

\* PostComposer.handleClear: the composer's text and its own list are emptied
HandleClear ==
    /\ Len(draft) > 0
    /\ draft' = <<>>
    /\ attach' = [op |-> "handleClear", ret |-> "none", present |-> Len(mediaFiles),
                  sent |-> attach.sent, n |-> attach.n]
    /\ UNCHANGED <<impl, backend, hasUUID, medium, posts, stored, loading, error,
                   clock, rnd, calls, last, mediaFiles, isLoading, hashing, urls,
                   pair, InFlight, auth>>

NextMedia ==
    \/ HandleFileSelect
    \/ HandleDrop
    \/ AddMediaResume
    \/ RemoveMedia
    \/ ClearMedia
    \/ HandleSubmit
    \/ HandleClear

InitMedia ==
    /\ impl = "provider"
    /\ backend = "web"
    /\ hasUUID = TRUE
    /\ medium = "reliable"
    /\ posts = <<>>
    /\ stored = InitStored
    /\ loading = TRUE
    /\ error = "null"
    /\ clock = 1
    /\ rnd = 3
    /\ calls = 0
    /\ last = NoCall
    /\ EmptyComposer
    /\ pair = NoPair
    /\ auth = NoAuth
    /\ Idle

SpecMedia == InitMedia /\ [][NextMedia]_vars

-----------------------------------------------------------------------------
(* The operations of the store as functions of a session [posts, stored],   *)
(* of the store im and of the backend b, on a reliable medium; the id of a  *)
(* new post is handed in.  They follow the actions above step by step.      *)

sessionSetAndSave(b, t, updatedPosts) ==
    [posts |-> updatedPosts, stored |-> SavePosts(b, t.stored, TRUE, updatedPosts).store]

sessionLoad(b, t) ==
    [posts |-> GetPosts(b, t.stored, TRUE), stored |-> t.stored]

sessionNewPost(im, id, text, author, parent) ==
    IF im = "provider" THEN NewPost(id, text, User(author), parent)
    ELSE NewPost(id, sanitizeText(text),
                 [id |-> author, name |-> sanitizeText(UserName(author))], parent)

sessionAddPost(b, im, t, id, text, author) ==
    IF im = "hook" /\ detectDangerousContent(text) THEN t
    ELSE sessionSetAndSave(b, t, <<sessionNewPost(im, id, text, author, NoId)>> \o t.posts)

sessionAddReply(b, im, t, id, parentId, text, author) ==
    IF im = "hook" /\ detectDangerousContent(text) THEN t
    ELSE IF im = "hook" /\ ~\E i \in 1..Len(t.posts) : t.posts[i].id = parentId THEN t
    ELSE sessionSetAndSave(b, t,
             addReplyMap(t.posts, parentId, sessionNewPost(im, id, text, author, parentId)))

sessionLikePost(b, im, t, postId, userId) ==
    IF im = "provider"
    THEN sessionSetAndSave(b, t, providerLikeMap(t.posts, postId, userId))
    ELSE LET postToLike == getPostById(t.posts, postId) IN
         IF postToLike = NotFound THEN t
         ELSE IF Includes(postToLike.likedBy, userId) THEN t
         ELSE sessionSetAndSave(b, t, hookLikeMap(t.posts, postId, userId))

sessionDeletePost(b, t, postId) ==
    LET r == DeleteById(b, t.stored, TRUE, postId) IN
    [posts |-> r.ret, stored |-> r.store]

\* the ids a caller may name: those either session shows
PairIds == IdsOf(pair.web.posts) \cup IdsOf(pair.electron.posts)

\* the id the next new post gets in both sessions
PairNewId == RandomId("uuid", pair.n + 1)

\* both sessions after an operation: web is what webStorage gave, electron
\* what electronStorage gave
PairStep(op, web, electron) ==
    /\ pair.n < MaxPairSteps
    /\ pair' = [web |-> web, electron |-> electron, n |-> pair.n + 1, op |-> op]
    /\ UNCHANGED <<impl, backend, hasUUID, medium, posts, stored, loading, error,
                   clock, rnd, calls, last, Composer, InFlight, auth>>

PairLoad ==
    PairStep("load", sessionLoad("web", pair.web), sessionLoad("electron", pair.electron))

PairAddPost ==
    \E text \in Texts, author \in Authors :
        PairStep("create",
                 sessionAddPost("web", impl, pair.web, PairNewId, text, author),
                 sessionAddPost("electron", impl, pair.electron, PairNewId, text, author))

PairAddReply ==
    \E parentId \in PairIds, text \in Texts, author \in Authors :
        PairStep("reply",
                 sessionAddReply("web", impl, pair.web, PairNewId, parentId, text, author),
                 sessionAddReply("electron", impl, pair.electron, PairNewId, parentId,
                                 text, author))

PairLikePost ==
    \E postId \in PairIds, userId \in Users :
        PairStep("like",
                 sessionLikePost("web", impl, pair.web, postId, userId),
                 sessionLikePost("electron", impl, pair.electron, postId, userId))

PairDeletePost ==
    \E postId \in PairIds :
        PairStep("delete",
                 sessionDeletePost("web", pair.web, postId),
                 sessionDeletePost("electron", pair.electron, postId))

NextPair ==
    \/ PairLoad
    \/ PairAddPost
    \/ PairAddReply
    \/ PairLikePost
    \/ PairDeletePost

InitPair ==
    /\ impl \in {"provider", "hook"}
    /\ backend = "web"
    /\ hasUUID = TRUE
    /\ medium = "reliable"
    /\ posts = <<>>
    /\ stored = <<>>
    /\ loading = (impl = "provider")
    /\ error = "null"
    /\ clock = 1
    /\ rnd = 0
    /\ calls = 0
    /\ last = NoCall
    /\ EmptyComposer
    /\ pair = NoPair
    /\ auth = NoAuth
    /\ Idle

\* two sessions on an empty store, given the same operations with the same ids
SpecPair == InitPair /\ [][NextPair]_vars

-----------------------------------------------------------------------------
(* The operations of the store with their await shown: a call starts (what  *)
(* the handler does up to await storageService...), the backend serves it,  *)
(* and the call resumes behind the await.  webStorage serves a call within  *)
(* its start: its functions touch localStorage before they first yield.     *)
(* electronStorage hands the call to the main process, whose handlers take  *)
(* the requests of the one channel in the order sent and answer in that     *)
(* order.  A call that returns or throws before it reaches the backend      *)
(* (usePosts on an unsafe text, an unknown parent, a post that is unknown   *)
(* or already liked) never waits and is not shown.  The medium is reliable. *)

\* a call on its way: updatedPosts is what it gave setPosts before the await
Request(op, id, updatedPosts) ==
    [op |-> op, id |-> id, updatedPosts |-> updatedPosts, handled |-> FALSE, reply |-> <<>>]

\* the backend serves the call c on the persisted collection s
Serve(c, s) ==
    IF c.op = "load" THEN [reply |-> GetPosts(backend, s, TRUE), store |-> s]
    ELSE IF c.op = "delete"
    THEN LET r == DeleteById(backend, s, TRUE, c.id) IN [reply |-> r.ret, store |-> r.store]
    ELSE [reply |-> <<>>, store |-> SavePosts(backend, s, TRUE, c.updatedPosts).store]

Served(c, s) == [c EXCEPT !.handled = TRUE, !.reply = Serve(c, s).reply]

\* a faulty resume: what the backend returned is put behind what is shown
resumePostsMerged(c, ps) ==
    IF c.op \in {"load", "delete"} THEN ps \o c.reply ELSE ps

\* what a call does to posts behind its await: refreshPosts and deletePost
\* call setPosts with what the backend returned, the others are done
resumePosts(c, ps) ==
    IF c.op \in {"load", "delete"} THEN c.reply ELSE ps

\* a faulty resume: the loading state is left as the call found it
resumeLoadingKept(c, l) == l

\* what a call does to loading behind its await: setLoading(false) in the finally
\* of every operation but PostProvider.likePost, which never sets it
resumeLoading(c, l) ==
    IF impl = "provider" /\ c.op = "like" THEN l ELSE FALSE

\* the collection a call came to: what it handed to setPosts
ResultOf(c) == IF c.op \in {"load", "delete"} THEN c.reply ELSE c.updatedPosts

Issue(c) ==
    /\ calls < MaxOverlapCalls
    /\ Len(pending) < MaxPending
    /\ calls' = calls + 1
    /\ overlap' = IF pending = <<>> THEN "none"
                  ELSE IF overlap # "mixed" /\ \A i \in 1..Len(pending) : pending[i].op = c.op
                       THEN "same" ELSE "mixed"
    /\ IF backend = "web"
       THEN /\ pending' = Append(pending, Served(c, stored))
            /\ stored' = Serve(c, stored).store
       ELSE /\ pending' = Append(pending, c)
            /\ stored' = stored
    /\ UNCHANGED <<impl, backend, hasUUID, medium, Composer, pair, auth, clock, last,
                   rendered, done, hung>>

\* refreshPosts / loadPosts up to await storageService.getPosts()
StartLoad ==
    /\ Issue(Request("load", NoId, <<>>))
    /\ loading' = TRUE
    /\ error' = "null"
    /\ UNCHANGED <<posts, rnd>>

\* addPost up to await storageService.savePosts(updatedPosts)
StartAddPost ==
    \E author \in Authors :
        LET id == IF impl = "provider" THEN providerPostId(clock) ELSE generateSecureId
            updatedPosts == <<sessionNewPost(impl, id, <<"<">>, author, NoId)>> \o rendered
        IN
        /\ Len(rendered) < MaxTop
        /\ rnd < MaxRnd
        /\ Issue(Request("create", NoId, updatedPosts))
        /\ posts' = updatedPosts
        /\ rnd' = rnd + 1
        /\ loading' = TRUE
        /\ UNCHANGED error

\* addReply up to await storageService.savePosts(updatedPosts)
StartAddReply ==
    \E parentId \in {rendered[i].id : i \in 1..Len(rendered)}, author \in Authors :
        LET id == IF impl = "provider" THEN providerReplyId(clock) ELSE generateSecureId
            updatedPosts == addReplyMap(rendered, parentId,
                                        sessionNewPost(impl, id, <<"<">>, author, parentId))
        IN
        /\ \A i \in 1..Len(rendered) :
               rendered[i].id = parentId => Len(rendered[i].replies) < MaxReplies
        /\ rnd < MaxRnd
        /\ Issue(Request("reply", parentId, updatedPosts))
        /\ posts' = updatedPosts
        /\ rnd' = rnd + 1
        /\ loading' = TRUE
        /\ UNCHANGED error

\* likePost up to await storageService.savePosts(updatedPosts)
StartLikePost ==
    \E postId \in IdsOf(rendered), userId \in Users :
        LET updatedPosts == IF impl = "provider"
                            THEN providerLikeMap(rendered, postId, userId)
                            ELSE hookLikeMap(rendered, postId, userId)
        IN
        /\ impl = "hook" => ~Includes(getPostById(rendered, postId).likedBy, userId)
        /\ Issue(Request("like", postId, updatedPosts))
        /\ posts' = updatedPosts
        /\ loading' = IF impl = "hook" THEN TRUE ELSE loading
        /\ UNCHANGED <<error, rnd>>

\* deletePost up to await storageService.deletePost(postId)
StartDeletePost ==
    \E postId \in IdsOf(rendered) :
        /\ Issue(Request("delete", postId, <<>>))
        /\ loading' = TRUE
        /\ UNCHANGED <<posts, error, rnd>>

\* the main process handles the oldest request it has not handled yet
BackendServe ==
    \E i \in 1..Len(pending) :
        /\ backend = "electron"
        /\ ~pending[i].handled
        /\ \A j \in 1..(i - 1) : pending[j].handled
        /\ pending' = [pending EXCEPT ![i] = Served(pending[i], stored)]
        /\ stored' = Serve(pending[i], stored).store
        /\ UNCHANGED <<impl, backend, hasUUID, medium, Composer, pair, auth, posts, loading,
                       error, clock, rnd, calls, last, rendered, done, overlap, hung>>

\* the oldest call resumes behind its await and completes
Resume ==
    /\ pending # <<>>
    /\ Head(pending).handled
    /\ posts' = resumePosts(Head(pending), posts)
    /\ loading' = resumeLoading(Head(pending), loading)
    /\ done' = [op |-> Head(pending).op, result |-> ResultOf(Head(pending))]
    /\ pending' = Tail(pending)
    /\ UNCHANGED <<impl, backend, hasUUID, medium, Composer, pair, auth, stored, error,
                   clock, rnd, calls, last, rendered, overlap, hung>>

\* the component renders: the callbacks are made anew over the current posts
Render ==
    /\ rendered # posts
    /\ rendered' = posts
    /\ UNCHANGED <<impl, backend, hasUUID, medium, Composer, pair, auth, posts, stored,
                   loading, error, clock, rnd,
                   calls, last, pending, done, overlap, hung>>

NextOverlap ==
    \/ StartLoad
    \/ StartAddPost
    \/ StartAddReply
    \/ StartLikePost
    \/ StartDeletePost
    \/ BackendServe
    \/ Resume
    \/ Render

InitOverlap ==
    /\ impl \in {"provider", "hook"}
    /\ backend \in {"web", "electron"}
    /\ hasUUID = TRUE
    /\ medium = "reliable"
    /\ posts = <<>>
    /\ stored = InitStored
    /\ loading = (impl = "provider")
    /\ error = "null"
    /\ clock = 1
    /\ rnd = 3
    /\ calls = 0
    /\ last = NoCall
    /\ EmptyComposer
    /\ pair = NoPair
    /\ auth = NoAuth
    /\ Idle

\* the store with calls that overlap
SpecOverlap == InitOverlap /\ [][NextOverlap]_vars

\* the store with calls that overlap, where every backend call returns: the main
\* process answers each request it was sent, and the continuation of a call whose
\* promise has settled is run by the event loop
SpecOverlapFair ==
    /\ InitOverlap
    /\ [][NextOverlap]_vars
    /\ WF_vars(BackendServe)
    /\ WF_vars(Resume)

\* create, reply and like alone, on a store whose mount load has completed and
\* has been rendered
NextMutate ==
    \/ StartAddPost
    \/ StartAddReply
    \/ StartLikePost
    \/ BackendServe
    \/ Resume
    \/ Render

InitMutate ==
    /\ impl \in {"provider", "hook"}
    /\ backend \in {"web", "electron"}
    /\ hasUUID = TRUE
    /\ medium = "reliable"
    /\ posts = InitStored
    /\ stored = InitStored
    /\ loading = FALSE
    /\ error = "null"
    /\ clock = 1
    /\ rnd = 3
    /\ calls = 0
    /\ last = NoCall
    /\ EmptyComposer
    /\ pair = NoPair
    /\ auth = NoAuth
    /\ pending = <<>>
    /\ rendered = InitStored
    /\ done = NoDone
    /\ overlap = "none"
    /\ hung = {}

SpecMutate == InitMutate /\ [][NextMutate]_vars

\* the promise of a call that waits for the main process never settles: the call
\* stays suspended at its await for good, and the calls behind it go on
Hang ==
    \E i \in 1..Len(pending) :
        /\ backend = "electron"
        /\ ~pending[i].handled
        /\ hung' = hung \cup {pending[i].op}
        /\ pending' = SubSeq(pending, 1, i - 1) \o SubSeq(pending, i + 1, Len(pending))
        /\ UNCHANGED <<impl, backend, hasUUID, medium, Composer, pair, auth, posts, stored,
                       loading, error, clock, rnd, calls, last, rendered, done, overlap>>

NextHang ==
    \/ NextOverlap
    \/ Hang

\* the store with calls that overlap and calls that never return
SpecHang == InitOverlap /\ [][NextHang]_vars

-----------------------------------------------------------------------------
(* src/context/AuthContext.tsx AuthProvider: the current user and the       *)
(* identity record under 'community-forum-user'.  NullUser stands for a     *)
(* null currentUser and for an absent record; JSON.stringify followed by    *)
(* JSON.parse returns a user record as it was.  Every access to             *)
(* localStorage succeeds.                                                   *)

MaxAuthSteps == 4

\* String.prototype.trim
trim(name) ==
    LET inked == {i \in 1..Len(name) : ~IsSpace(name[i])} IN
    IF inked = {} THEN <<>>
    ELSE SubSeq(name, CHOOSE i \in inked : \A j \in inked : i <= j,
                      CHOOSE i \in inked : \A j \in inked : i >= j)

\* the names typed into the sign-in field
LoginNames == {<<>>, <<" ">>, <<"A">>, <<" ", "B", " ">>}

\* the users handed to updateUser: any value of type User
UpdateUsers ==
    {[id |-> i, name |-> nm] : i \in {RandomId("uuid", 1), EmptyId},
                               nm \in {<<"C">>, <<>>}}

\* the startup effect's test: userData && userData.id && userData.name
isSavedUser(userData) ==
    userData # NullUser /\ userData.id # EmptyId /\ userData.name # <<>>

AuthStep(op, user, record) ==
    /\ auth.n < MaxAuthSteps
    /\ auth' = [currentUser |-> user, record |-> record, op |-> op, n |-> auth.n + 1]
    /\ UNCHANGED <<impl, backend, hasUUID, medium, posts, stored, loading, error,
                   calls, last, Composer, pair, InFlight>>

\* login(name)
Login ==
    \E name \in LoginNames, now \in Now :
        IF trim(name) = <<>>
        THEN /\ AuthStep("loginBlank", auth.currentUser, auth.record)
             /\ UNCHANGED <<clock, rnd>>
        ELSE LET newUser == [id |-> IF hasUUID THEN RandomId("uuid", rnd + 1)
                                    ELSE [k |-> "user-ts", n |-> now],
                             name |-> trim(name)]
             IN /\ rnd < MaxRnd
                /\ AuthStep("login", newUser, newUser)
                /\ rnd' = IF hasUUID THEN rnd + 1 ELSE rnd
                /\ clock' = IF hasUUID THEN clock ELSE now

\* logout()
Logout ==
    /\ AuthStep("logout", NullUser, NullUser)
    /\ UNCHANGED <<clock, rnd>>

\* updateUser(user)
UpdateUser ==
    \E user \in UpdateUsers :
        /\ AuthStep("updateUser", user, user)
        /\ UNCHANGED <<clock, rnd>>

\* the page is loaded anew: useState(null), then the startup effect
Restart ==
    LET savedUserData == auth.record IN
    /\ AuthStep("restart",
                IF isSavedUser(savedUserData) THEN savedUserData ELSE NullUser,
                savedUserData)
    /\ UNCHANGED <<clock, rnd>>

NextAuth ==
    \/ Login
    \/ Logout
    \/ UpdateUser
    \/ Restart

InitAuth ==
    /\ impl = "provider"
    /\ backend = "web"
    /\ hasUUID \in BOOLEAN
    /\ medium = "reliable"
    /\ posts = <<>>
    /\ stored = <<>>
    /\ loading = TRUE
    /\ error = "null"
    /\ clock = 1
    /\ rnd = 0
    /\ calls = 0
    /\ last = NoCall
    /\ EmptyComposer
    /\ pair = NoPair
    /\ auth = NoAuth
    /\ Idle

\* the identity provider alone
SpecAuth == InitAuth /\ [][NextAuth]_vars

-----------------------------------------------------------------------------
(* Properties *)

Ids(ps) == [i \in 1..Len(Flat(ps)) |-> Flat(ps)[i].id]

Distinct(s) == \A i, j \in 1..Len(s) : i # j => s[i] # s[j]

\* a call has just completed
Completed(op) == calls' = calls + 1 /\ last'.op = op

\* the likes and likedBy of every post of a collection, in document order
LikeView(ps) == [i \in 1..Len(Flat(ps)) |->
                    [id |-> Flat(ps)[i].id, likes |-> Flat(ps)[i].likes,
                     likedBy |-> Flat(ps)[i].likedBy]]

LikedOnce(ps, id, userId) ==
    \A p \in Range(Flat(ps)) : p.id = id => Count(p.likedBy, userId) = 1

\* C1: after any sequence of create and reply calls no two posts of the
\* in-memory collection, top-level or reply, have the same id.
C1_UniqueIds == Distinct(Ids(posts))

\* C2: a like(id, u) of an existing post that repeats the call before it (same
\* id, same user) changes neither likes nor likedBy of any post, and leaves u
\* exactly once in the likedBy of the post; for the store's likePost (on the
\* in-memory collection) and for the likePost of the backend and of the bridge
\* (on the persisted collection).
C2_IdempotentLike ==
    [][ /\ (Completed("like") /\ last'.again /\ last'.kind # "none") =>
            /\ LikeView(posts') = LikeView(posts)
            /\ LikedOnce(posts', last'.id, last'.user)
        /\ ((Completed("backendLike") \/ Completed("bridgeLike"))
                /\ last'.again /\ last'.kind # "none") =>
            /\ LikeView(stored') = LikeView(stored)
            /\ LikedOnce(stored', last'.id, last'.user)
      ]_vars

\* C2 witness: the second of two like calls with the same arguments on an
\* existing post has completed, the user being in likedBy since the first.
C2_Witness ==
    /\ last.op \in {"like", "backendLike", "bridgeLike"}
    /\ last.again
    /\ last.kind # "none"
    /\ last.liked
    /\ \E p \in Range(Flat(IF last.op = "like" THEN posts ELSE stored)) :
           p.id = last.id /\ Includes(p.likedBy, last.user)

LikesConsistent(ps) ==
    \A p \in Range(Flat(ps)) : Distinct(p.likedBy) /\ p.likes = Len(p.likedBy)

\* C3: every post and reply of the in-memory and of the persisted collection has
\* a likedBy without duplicates and likes equal to its length.
C3_LikesConsistent == LikesConsistent(posts) /\ LikesConsistent(stored)

\* C3 witness: a like has been added to a post that another user had liked.
C3_Witness ==
    /\ last.op \in {"like", "backendLike", "bridgeLike"}
    /\ \E p \in Range(Flat(posts)) \cup Range(Flat(stored)) :
           p.id = last.id /\ Len(p.likedBy) = 2

RepliesOf(ps, id) ==
    Concat([i \in 1..Len(ps) |-> IF ps[i].id = id THEN ps[i].replies ELSE <<>>])

\* C4: after delete(P.id) of a top-level post P with replies the visible collection
\* holds no post with P's id, and a lookup of each of P's replies' ids finds nothing.
C4_DeleteCascades ==
    [][ (Completed("delete") /\ Kind(posts, last'.id) = "top"
                             /\ RepliesOf(posts, last'.id) # <<>>) =>
            /\ getPostById(posts', last'.id) = NotFound
            /\ \A r \in Range(RepliesOf(posts, last'.id)) :
                   getPostById(posts', r.id) = NotFound
      ]_vars

\* the collection without the replies of id r
WithoutReply(ps, r) ==
    [i \in 1..Len(ps) |->
        [ps[i] EXCEPT !.replies = SelectSeq(@, LAMBDA x : x.id # r)]]

\* C5: delete(r) of a reply removes that reply from its parent's replies and
\* changes nothing else of the visible collection.
C5_DeleteReplyOnly ==
    [][ (Completed("delete") /\ Kind(posts, last'.id) = "reply") =>
            posts' = WithoutReply(posts, last'.id)
      ]_vars

\* C6: a reply whose parentId names no top-level post is reported as failed to the
\* caller and leaves the in-memory and the persisted collection as they were.
C6_ReplyNotFound ==
    [][ (Completed("reply") /\ Kind(posts, last'.id) # "top") =>
            /\ (last'.ret # "ok" \/ error' # "null")
            /\ posts' = posts
            /\ stored' = stored
      ]_vars

\* C7: delete(id) and like(id, u) with an id that names nothing leave the visible
\* collection as it was and report no failure.
C7_AbsentNoOp ==
    [][ ((Completed("delete") \/ Completed("like")) /\ last'.id = AbsentId) =>
            /\ posts' = posts
            /\ last'.ret = "ok"
            /\ error' = "null"
      ]_vars

\* C8: create and reply with a text that detectDangerousContent matches fail, do
\* not invoke savePosts and leave both collections as they were.
C8_DangerousRejected ==
    [][ ((Completed("create") \/ Completed("reply"))
            /\ detectDangerousContent(last'.text)) =>
            /\ (last'.ret # "ok" \/ error' # "null")
            /\ last'.saves = 0
            /\ posts' = posts
            /\ stored' = stored
      ]_vars

\* C9: create with an empty or whitespace-only text is rejected by the store: no
\* post is added and nothing is written.
C9_BlankRejected ==
    [][ (Completed("create") /\ IsBlank(last'.text)) =>
            /\ (last'.ret # "ok" \/ error' # "null")
            /\ posts' = posts
            /\ stored' = stored
      ]_vars

\* C10: a create, reply or like whose savePosts failed tells the caller: the error
\* state is set or the call fails.
C10_SaveFailureReported ==
    (last.op \in {"create", "reply", "like"} /\ last.saves > 0 /\ ~last.saveOk)
        => (error # "null" \/ last.ret # "ok")

\* C11: a create, reply, like or delete of the store, made when the collection
\* the active backend returns equals the in-memory one and with every backend
\* access succeeding, ends with the two equal again.
C11_PersistedEqualsMemory ==
    [][ ((Completed("create") \/ Completed("reply") \/ Completed("like")
            \/ Completed("delete"))
          /\ last'.saveOk
          /\ posts = GetPosts(backend, stored, TRUE)) =>
            posts' = GetPosts(backend, stored', TRUE)
      ]_vars

\* every reply of a collection has an empty replies array
OneLevel(ps) ==
    \A i \in 1..Len(ps) : \A j \in 1..Len(ps[i].replies) :
        ps[i].replies[j].replies = <<>>

\* C13: every reply of the in-memory and of the persisted collection has an empty
\* replies array, and so has every reply of the collection the backend's addReply
\* would persist for a parentId that is the id of a reply.
C13_RepliesOneLevel ==
    /\ OneLevel(posts)
    /\ OneLevel(stored)
    /\ \A parentId \in {id \in IdsOf(stored) : Kind(stored, id) = "reply"} :
           OneLevel(AddReplyById(backend, stored, TRUE, parentId,
                        NewPost(RandomId("uuid", rnd + 1), <<"<">>, User("u1"), parentId)))

\* C13 witness: a reply call whose parentId names a reply has completed.
C13_Witness ==
    /\ last.op = "reply"
    /\ last.kind = "reply"
    /\ OneLevel(posts)

\* the fields of the posts nested two levels deep
DeepView(ps) ==
    [k \in 1..Len(DeepOf(ps)) |->
        [id |-> DeepOf(ps)[k].id, text |-> DeepOf(ps)[k].text,
         likes |-> DeepOf(ps)[k].likes, likedBy |-> DeepOf(ps)[k].likedBy,
         isDeleted |-> DeepOf(ps)[k].isDeleted]]

\* C14: a like or delete with the id of a post nested two levels deep, and a lookup
\* of that id, do not find the post, and leave the fields of every such post as
\* they were in the in-memory and in the persisted collection.
C14_DeepUntouched ==
    [][ ((Completed("like") \/ Completed("delete") \/ Completed("backendLike")
            \/ Completed("bridgeLike"))
          /\ last'.id \in DeepIdsOf(stored)) =>
            /\ getPostById(posts, last'.id) = NotFound
            /\ getPostById(posts', last'.id) = NotFound
            /\ DeepView(posts') = DeepView(posts)
            /\ DeepView(stored') = DeepView(stored)
      ]_vars

\* no '<' and no '>' is left in a text
NoAngle(text) == ~Includes(text, "<") /\ ~Includes(text, ">")

\* C15: a create with a text that contains a script tag is rejected without any
\* change, or the post it puts at the front of the in-memory collection and the
\* one it persists hold a text without '<' and '>'.
C15_ScriptEscaped ==
    [][ (Completed("create") /\ Contains(LowerText(last'.text), P_script)) =>
            \/ /\ last'.ret # "ok"
               /\ posts' = posts
               /\ stored' = stored
            \/ /\ Len(posts') > 0 /\ NoAngle(posts'[1].text)
               /\ Len(stored') > 0 /\ NoAngle(stored'[1].text)
      ]_vars

\* a post as create and reply make it: nothing liked, nothing replied
IsNew(p) == p.likes = 0 /\ p.likedBy = <<>> /\ p.replies = <<>>

\* the effect of a successful create on the two collections
CreatePrepends ==
    /\ Len(posts') = Len(posts) + 1
    /\ IsNew(posts'[1])
    /\ posts'[1].parentId = NoId
    /\ Tail(posts') = posts
    /\ Ids(stored') = Ids(posts')

Size(ps) == Len(Flat(ps))

\* C19: a successful reply to the top-level post parentId adds exactly one post,
\* with that parentId, likes = 0 and empty likedBy and replies, at the end of the
\* replies of the parent, changes no other post and no other reply, and persists
\* all posts of the result.
C19_ReplyAppendsOne ==
    [][ (Completed("reply") /\ last'.ret = "ok" /\ last'.saveOk
            /\ Kind(posts, last'.id) = "top") =>
            /\ Size(posts') = Size(posts) + 1
            /\ Len(posts') = Len(posts)
            /\ \E i \in 1..Len(posts) :
                  /\ posts[i].id = last'.id
                  /\ Len(posts'[i].replies) = Len(posts[i].replies) + 1
                  /\ SubSeq(posts'[i].replies, 1, Len(posts[i].replies)) = posts[i].replies
                  /\ IsNew(posts'[i].replies[Len(posts'[i].replies)])
                  /\ posts'[i].replies[Len(posts'[i].replies)].parentId = last'.id
                  /\ [posts'[i] EXCEPT !.replies = <<>>] = [posts[i] EXCEPT !.replies = <<>>]
                  /\ \A j \in 1..Len(posts) : j # i => posts'[j] = posts[j]
            /\ Ids(stored') = Ids(posts')
      ]_vars

C16_MediaBound ==
    /\ Len(mediaFiles) <= maxFiles
    /\ Len(draft) <= maxFiles
    /\ (attach.op = "addMedia" /\ attach.present >= maxFiles) => attach.ret = "false"
    /\ attach.op = "submit" => attach.sent <= maxFiles

\* C12: after every sequence of load, create, reply, like and delete given to
\* an empty store with the same ids, the collection shown with webStorage
\* equals the one shown with electronStorage, post by post and field by field
C12_BackendsEqual == pair.web.posts = pair.electron.posts

\* C17: when load calls, or mutating calls of one kind, have overlapped and all
\* have completed, the collection in memory is the one the call that completed
\* last came to
C17_LastCompletedWins ==
    (pending = <<>> /\ overlap = "same") => posts = done.result

C17_Witness ==
    /\ pending = <<>>
    /\ overlap = "same"
    /\ done.op = "delete"
    /\ backend = "electron"
    /\ posts = done.result
    /\ Len(posts) = 0

\* the entries of ps, replies included, that carry id and are marked deleted
Tombstones(ps, id) == {p \in Range(Flat(ps)) : p.id = id /\ p.isDeleted}

\* C21: deleteById(id) of an existing top-level post or reply leaves the target in
\* the persisted collection marked isDeleted = true, and returns a collection that
\* no longer holds the target, with either backend.
C21_SoftDeleteThenFilter ==
    [][ (Completed("delete") /\ Kind(stored, last'.id) # "none") =>
            /\ Tombstones(stored', last'.id) # {}
            /\ last'.id \notin IdsOf(posts')
      ]_vars

\* C22: getAll after a successful saveAll(c) returns c, and a load followed by a
\* save of what was loaded leaves the persisted collection as it was, with either
\* backend.
C22_SaveLoadRoundTrip ==
    [][ /\ (calls' = calls + 1 /\ last'.op \in {"create", "reply", "like"}
                                /\ last'.saves = 1 /\ last'.saveOk) =>
               GetPosts(backend, stored', TRUE) = posts'
        /\ Completed("load") =>
               SavePosts(backend, stored, TRUE, posts').store = stored
      ]_vars

\* how often pat occurs in text
Occurrences(text, pat) == Cardinality({i \in 1..Len(text) : MatchAt(text, pat, i)})

\* out holds one '&lt;' for each '<' of in, one '&gt;' for each '>', and no '<'
\* or '>' of its own
AnglesEscaped(in, out) ==
    /\ Occurrences(out, E_lt) = Count(in, "<")
    /\ Occurrences(out, E_gt) = Count(in, ">")
    /\ NoAngle(out)

\* C23: each sanitizer turns every '<' of its input into '&lt;' and every '>' into
\* '&gt;': sanitizeText of the security utilities, applied by create to the text
\* composed, and the sanitizer of the Bridged backend, applied on write to the
\* text of the post the store holds.
C23_AmpersandFirst ==
    [][ (Completed("create") /\ last'.ret = "ok" /\ last'.saveOk) =>
            /\ impl = "hook" => AnglesEscaped(last'.text, posts'[1].text)
            /\ backend = "electron" => AnglesEscaped(posts'[1].text, stored'[1].text)
      ]_vars

\* C24: once a backend call made by load, create, reply or delete has hung, the
\* loading state is true, whatever other calls start or complete.
C24_HungKeepsLoading ==
    (hung \cap {"load", "create", "reply", "delete"} # {}) => loading = TRUE

\* C25: after every login, updateUser, logout and restart the persisted identity
\* record equals the current user (absent when nobody is signed in); a login with
\* an empty or blank name changes neither; a restart leaves the user that was
\* current before it.
C25_IdentityPersisted ==
    [][ /\ auth'.record = auth'.currentUser
        /\ auth'.op = "loginBlank" =>
               (auth'.currentUser = auth.currentUser /\ auth'.record = auth.record)
        /\ auth'.op = "restart" => auth'.currentUser = auth.currentUser
      ]_vars

\* C26: a load that follows a completed delete(id) of a post or reply does not
\* bring a post with that id back into the in-memory collection.
C26_DeletedStaysGone ==
    [][ (last.op = "delete" /\ last.kind # "none" /\ Completed("load")) =>
            last.id \notin IdsOf(posts')
      ]_vars

\* the ids given to the posts and replies created since the store was mounted
CreatedIds == {RandomId("uuid", n) : n \in 4..rnd}

\* C27: when creates, replies and likes that overlapped have all completed, every
\* post and reply they created is in the in-memory and in the persisted
\* collection.
C27_BothEffectsKept ==
    (pending = <<>> /\ overlap # "none") =>
        CreatedIds \subseteq (IdsOf(posts) \cap IdsOf(stored))

\* the store holds what a failed read returned: the last call was a load, and it
\* did not come to the collection a successful read returns
FailedLoadHeld == last.op = "load" /\ posts # GetPosts(backend, stored, TRUE)

\* C28: a load never changes the persisted collection, and a create, reply or like
\* that follows a failed load persists a collection that still holds every post
\* the persisted collection held.
C28_FailedReadLosesNothing ==
    [][ /\ Completed("load") => stored' = stored
        /\ (FailedLoadHeld /\ calls' = calls + 1
                           /\ last'.op \in {"create", "reply", "like"}) =>
               IdsOf(stored) \subseteq IdsOf(stored')
      ]_vars

\* C29, as stated: whenever no call is in flight loading is false, and the calls in
\* flight all complete.
C29_IdleNeverLoading ==
    /\ [](pending = <<>> => loading = FALSE)
    /\ (pending # <<>>) ~> (pending = <<>>)

\* C29: once an operation of the store has been started, loading is false whenever
\* no call is in flight; and, every backend call returning, the loads, creates,
\* replies, likes and deletes in flight all complete.
C29_CallsComplete ==
    /\ []((pending = <<>> /\ calls > 0) => loading = FALSE)
    /\ (pending # <<>>) ~> (pending = <<>>)

C29_Witness ==
    /\ pending = <<>>
    /\ calls = MaxOverlapCalls
    /\ done.op = "reply"
    /\ overlap = "mixed"
    /\ loading = FALSE

\* C30: after a submit the list of the composer and the list of the uploader are
\* empty; a submit hands on no file that an earlier submit handed on; and no file
\* handed on with a post has had its object URL revoked.
C30_BufferReleased ==
    [][ /\ attach'.op = "submit" =>
               /\ draft' = <<>> /\ mediaFiles' = <<>>
               /\ Range(draft) \cap urls.posted = {}
        /\ urls'.revoked \cap urls'.posted = {}
      ]_vars

====
